---- MODULE Spec2Model ----
(***************************************************************************)
(* Yatube (posts application): the User, Group, Post, Comment and Follow   *)
(* tables, the views of posts/views.py acting on them, the page cache in   *)
(* front of the home listing and the paginator behind every listing.       *)
(*                                                                         *)
(* A view is one action.  The response of the last completed request is    *)
(* kept in resp, so that what a view answers can be stated next to what it *)
(* did to the tables.  Follow.objects.get_or_create is two statements of   *)
(* the ORM (a SELECT, then an INSERT) and is modelled as two steps.        *)
(***************************************************************************)
EXTENDS Integers, Sequences, FiniteSets, TLC

VARIABLES
    posts,      \* Post table: pk -> [text, pub_date, author, group]
    nextId,     \* next primary key of the Post table
    comments,   \* Comment table: pk -> [post, author, text, created]
    nextComment,\* next primary key of the Comment table
    groups,     \* Group table: the slugs of its rows
    users,      \* User table: the usernames of its rows
    follows,    \* Follow table: <<user, author>> -> number of rows
    pending,    \* get_or_create calls between their SELECT and their INSERT
    cache,      \* page cache: URL (page parameter) -> entry or NoEntry
    now,        \* the clock
    resp        \* response of the last completed request

vars == <<posts, nextId, comments, nextComment, groups, users, follows,
          pending, cache, now, resp>>

----------------------------------------------------------------------------
(* Bounds of the model. *)

MaxPosts    == 2    \* posts ever created in Spec, SpecCache and SpecPost
MaxFollows  == 2    \* rows of the Follow table
MaxRequests == 2    \* profile_follow requests inside get_or_create at once
MaxTime     == 3    \* last tick of the clock
MaxListing  == 13   \* posts of the listing in SpecPaginator
MaxComments == 2    \* comments ever created
\* settings.CACHES_SEC, the cache window of index, counted in clock ticks.
CACHES_SEC  == 2

(* settings.POSTS_COUNT, the page size. *)
POSTS_COUNT == 10

Users     == {"auth", "following_two", "user_followed"}
Anonymous == "AnonymousUser"
Usernames == Users \cup {"nobody"}      \* usernames a URL can carry
Groups    == {"test"}
TwoGroups == {"test", "second"}         \* the Group table of SpecGroup
NoGroup   == "null"
Slugs     == Groups \cup {"nogroup"}    \* slugs a URL can carry
Texts     == {"text", "edited"}

\* the page parameter of a request: request.GET.get('page')
PageParam(n) == [given |-> TRUE, digits |-> TRUE, n |-> n]
NoPage       == [given |-> FALSE, digits |-> FALSE, n |-> 0]   \* no ?page=
NotANumber   == [given |-> TRUE, digits |-> FALSE, n |-> 0]    \* ?page=abc

Pairs == Users \X Users

----------------------------------------------------------------------------
(* Responses. *)

Loc(name, pk, username) == [name |-> name, pk |-> pk, username |-> username]
NoLoc == Loc("", 0, "")

NoExpires == -1

\* what the URL of a request names: a post id, a username or a slug
Arg(pk, name) == [pk |-> pk, name |-> name]
NoArg == Arg(0, "")

\* request.POST of a form view; NoData is a GET or an empty POST
FormData(text, group, author) ==
    [bound |-> TRUE, text |-> text, group |-> group, author |-> author]
NoData == [bound |-> FALSE, text |-> "", group |-> NoGroup, author |-> Anonymous]

\* a response, with the view, the user and the URL argument of its request;
\* page_obj, page_number, following and form are the context of a rendering
Response(view, user, arg, status, location, page_obj, following) ==
    [view |-> view, user |-> user, arg |-> arg, status |-> status,
     location |-> location, page_obj |-> page_obj, following |-> following,
     page_number |-> NoPage, form |-> NoData, expires |-> NoExpires]

\* a rendering of a listing: get_page_context puts page_number in the context
render_page(view, user, arg, page_obj, page_number, following) ==
    [Response(view, user, arg, 200, NoLoc, page_obj, following)
     EXCEPT !.page_number = page_number]

\* a rendering of a form view: the form is in the context
render_form(view, user, arg, form) ==
    [Response(view, user, arg, 200, NoLoc, <<>>, FALSE) EXCEPT !.form = form]

redirect(view, user, arg, location) ==
    Response(view, user, arg, 302, location, <<>>, FALSE)

Http404(view, user, arg) == Response(view, user, arg, 404, NoLoc, <<>>, FALSE)

\* an exception that leaves the view: the server answers 500
ServerError(view, user, arg) ==
    Response(view, user, arg, 500, NoLoc, <<>>, FALSE)

\* @login_required for a user who is not authenticated
login_redirect(view, user, arg) ==
    redirect(view, user, arg, Loc("login", 0, ""))

NoResponse == Response("", Anonymous, NoArg, 0, NoLoc, <<>>, FALSE)

----------------------------------------------------------------------------
(* request.user.is_authenticated: the session names a row of the User     *)
(* table; the session of a deleted user reads as AnonymousUser.            *)
is_authenticated(user) == user \in users

----------------------------------------------------------------------------
(* The Follow table. *)

RECURSIVE Rows(_, _)
\* the number of rows a table holds for the pairs of S
Rows(table, S) ==
    IF S = {} THEN 0
    ELSE LET p == CHOOSE q \in S : TRUE
         IN table[p] + Rows(table, S \ {p})

FollowRows   == Rows(follows, Pairs)
PendingCalls == Rows(pending, Pairs)

\* Follow.objects.get_or_create, first statement: self.get(user=, author=)
\* "DoesNotExist", "found" or "MultipleObjectsReturned"
get(user, author) ==
    CASE follows[<<user, author>>] = 0 -> "DoesNotExist"
      [] follows[<<user, author>>] = 1 -> "found"
      [] OTHER -> "MultipleObjectsReturned"

\* profile_follow without its guard
may_follow_always(user_active, author) == TRUE

\* the guard of profile_follow
may_follow(user_active, author) == user_active /= author

\* profile_follow up to and including the SELECT of get_or_create
profile_follow(user, username) ==
    /\ UNCHANGED <<comments, nextComment, groups, users>>
    /\ UNCHANGED <<posts, nextId, follows, cache, now>>
    /\ IF ~is_authenticated(user)
       THEN /\ resp' = login_redirect("profile_follow", user, Arg(0, username))
            /\ UNCHANGED pending
       ELSE IF username \notin users
       THEN /\ resp' = Http404("profile_follow", user, Arg(0, username))
            /\ UNCHANGED pending
       ELSE IF may_follow(user, username)
       THEN CASE get(user, username) = "found" ->
                   /\ resp' = redirect("profile_follow", user, Arg(0, username),
                                Loc("follow_index", 0, ""))
                   /\ UNCHANGED pending
              [] get(user, username) = "MultipleObjectsReturned" ->
                   /\ resp' = ServerError("profile_follow", user, Arg(0, username))
                   /\ UNCHANGED pending
              [] OTHER ->
                   /\ PendingCalls < MaxRequests
                   /\ FollowRows + PendingCalls < MaxFollows
                   /\ pending' = [pending EXCEPT ![<<user, username>>] = @ + 1]
                   /\ UNCHANGED resp
       ELSE /\ resp' = redirect("profile_follow", user, Arg(0, username),
                                Loc("follow_index", 0, ""))
            /\ UNCHANGED pending

\* get_or_create, second statement: self.create(user=, author=), and the
\* redirect that ends profile_follow
\* The INSERT of a row whose user or author was deleted since the SELECT
\* breaks a foreign key: IntegrityError leaves the view and no row is kept.
profile_follow_create(user, author) ==
    /\ pending[<<user, author>>] > 0
    /\ pending' = [pending EXCEPT ![<<user, author>>] = @ - 1]
    /\ IF user \in users /\ author \in users
       THEN /\ follows' = [follows EXCEPT ![<<user, author>>] = @ + 1]
            /\ resp' = redirect("profile_follow", user, Arg(0, author),
                               Loc("follow_index", 0, ""))
       ELSE /\ resp' = ServerError("profile_follow", user, Arg(0, author))
            /\ UNCHANGED follows
    /\ UNCHANGED <<comments, nextComment, groups, users>>
    /\ UNCHANGED <<posts, nextId, cache, now>>

\* the delete without its author filter: Follow.objects.filter(user=).delete()
delete_follow_of_user(user, author) ==
    [p \in Pairs |-> IF p[1] = user THEN 0 ELSE follows[p]]

\* Follow.objects.filter(user=, author=).delete()
delete_follow(user, author) == [follows EXCEPT ![<<user, author>>] = 0]

profile_unfollow(user, username) ==
    /\ UNCHANGED <<comments, nextComment, groups, users>>
    /\ UNCHANGED <<posts, nextId, pending, cache, now>>
    /\ IF ~is_authenticated(user)
       THEN /\ resp' = login_redirect("profile_unfollow", user, Arg(0, username))
            /\ UNCHANGED follows
       ELSE IF username \notin users
       THEN /\ resp' = Http404("profile_unfollow", user, Arg(0, username))
            /\ UNCHANGED follows
       ELSE /\ follows' = delete_follow(user, username)
            /\ resp' = redirect("profile_unfollow", user, Arg(0, username),
                                Loc("follow_index", 0, ""))

----------------------------------------------------------------------------
(* The Post table and its listings. *)

\* a Post as a view hands it to the template
Obj(pk) == [pk |-> pk, text |-> posts[pk].text, pub_date |-> posts[pk].pub_date,
            author |-> posts[pk].author, group |-> posts[pk].group]

Newest(queryset) ==
    {p \in queryset : \A q \in queryset : posts[q].pub_date <= posts[p].pub_date}

\* Post.Meta.ordering = ['-pub_date']: the sequences in which the database
\* may return the rows of a queryset.  Rows of equal pub_date come in any
\* order, and each evaluation of the queryset may pick another one.
RECURSIVE Orderings(_)
Orderings(queryset) ==
    IF queryset = {} THEN {<<>>}
    ELSE UNION {{<<Obj(p)>> \o rest : rest \in Orderings(queryset \ {p})} :
                p \in Newest(queryset)}

all_posts == DOMAIN posts                                   \* Post.objects.all()
group_queryset(slug) == {p \in DOMAIN posts : posts[p].group = slug}
author_queryset(username) == {p \in DOMAIN posts : posts[p].author = username}

\* the relation read backwards: user.following.values_list('user', flat=True)
followed_authors_reversed(user) == {a \in Users : follows[<<a, user>>] > 0}

\* user.follower.values_list('author', flat=True)
followed_authors(user) == {a \in Users : follows[<<user, a>>] > 0}

\* Post.objects.filter(author__id__in=authors)
follow_queryset(user) ==
    {p \in DOMAIN posts : posts[p].author \in followed_authors(user)}

----------------------------------------------------------------------------
(* django.core.paginator.Paginator(object_list, per_page), orphans = 0 and *)
(* allow_empty_first_page = True, as get_page_context builds it.           *)

Max(a, b) == IF a >= b THEN a ELSE b

num_pages(count, per_page) == (Max(1, count) + per_page - 1) \div per_page

\* Paginator.validate_number: "PageNotAnInteger", "EmptyPage" or "ok"
validate_number(number, count, per_page) ==
    IF ~number.given \/ ~number.digits THEN "PageNotAnInteger"
    ELSE IF number.n < 1 THEN "EmptyPage"
    ELSE IF number.n > num_pages(count, per_page) THEN "EmptyPage"
    ELSE "ok"

\* a get_page that falls back to the first page
get_page_number_first(number, count, per_page) ==
    IF validate_number(number, count, per_page) = "ok" THEN number.n ELSE 1

\* Paginator.get_page: the number of the page that is served
get_page_number(number, count, per_page) ==
    CASE validate_number(number, count, per_page) = "PageNotAnInteger" -> 1
      [] validate_number(number, count, per_page) = "EmptyPage" ->
             num_pages(count, per_page)
      [] OTHER -> number.n

\* Paginator.page: object_list[bottom:top]
page(object_list, number, per_page) ==
    LET bottom == (number - 1) * per_page
        top    == IF bottom + per_page >= Len(object_list)
                  THEN Len(object_list) ELSE bottom + per_page
    IN SubSeq(object_list, bottom + 1, top)

\* get_page_context(queryset, request): the page_obj of the context, for
\* the order in which the database returned the queryset
get_page_context(object_list, page_number) ==
    page(object_list,
         get_page_number(page_number, Len(object_list), POSTS_COUNT),
         POSTS_COUNT)

----------------------------------------------------------------------------
(* Listing views. *)

NoEntry == [content |-> <<>>, expires |-> NoExpires]

\* a cache that never answers
cache_get_never(url) == NoEntry

\* a cache that still answers at the instant an entry expires
cache_get_late(url) ==
    IF url \in DOMAIN cache /\ now <= cache[url].expires
    THEN cache[url] ELSE NoEntry

\* the cache entry of a URL, expired entries read as absent
cache_get(url) ==
    IF url \in DOMAIN cache /\ now < cache[url].expires
    THEN cache[url] ELSE NoEntry

cache_set(url, content) ==
    [u \in DOMAIN cache \cup {url} |->
        IF u = url THEN [content |-> content, expires |-> now + CACHES_SEC]
        ELSE cache[u]]

\* @cache_page(settings.CACHES_SEC) around index
index(user, page_number) ==
    /\ UNCHANGED <<comments, nextComment, groups, users>>
    /\ UNCHANGED <<posts, nextId, follows, pending, now>>
    /\ IF cache_get(page_number) /= NoEntry
       THEN /\ resp' = [render_page("index", user, NoArg,
                                    cache_get(page_number).content,
                                    page_number, FALSE)
                        EXCEPT !.expires = cache_get(page_number).expires]
            /\ UNCHANGED cache
       ELSE \E post_list \in Orderings(all_posts) :
              LET page_obj == get_page_context(post_list, page_number)
              IN /\ resp' = [render_page("index", user, NoArg, page_obj,
                                          page_number, FALSE)
                             EXCEPT !.expires = now + CACHES_SEC]
                 /\ cache' = cache_set(page_number, page_obj)

\* django.core.cache.cache.clear()
cache_clear ==
    /\ cache /= <<>>
    /\ cache' = <<>>
    /\ UNCHANGED <<comments, nextComment, groups, users>>
    /\ UNCHANGED <<posts, nextId, follows, pending, now, resp>>

Tick ==
    /\ now < MaxTime
    /\ now' = now + 1
    /\ UNCHANGED <<comments, nextComment, groups, users>>
    /\ UNCHANGED <<posts, nextId, follows, pending, cache, resp>>

group_posts(user, slug, page_number) ==
    /\ UNCHANGED <<comments, nextComment, groups, users>>
    /\ UNCHANGED <<posts, nextId, follows, pending, cache, now>>
    /\ IF slug \notin groups
       THEN resp' = Http404("group_posts", user, Arg(0, slug))
       ELSE \E post_list \in Orderings(group_queryset(slug)) :
              resp' = render_page("group_posts", user, Arg(0, slug),
                                  get_page_context(post_list, page_number),
                                  page_number, FALSE)

\* the flag of profile: user.is_authenticated and author.following.exists()
following(user, author) ==
    /\ is_authenticated(user)
    /\ \E u \in Users : follows[<<u, author>>] > 0

profile(user, username, page_number) ==
    /\ UNCHANGED <<comments, nextComment, groups, users>>
    /\ UNCHANGED <<posts, nextId, follows, pending, cache, now>>
    /\ IF username \notin users
       THEN resp' = Http404("profile", user, Arg(0, username))
       ELSE \E post_list \in Orderings(author_queryset(username)) :
              resp' = render_page("profile", user, Arg(0, username),
                                  get_page_context(post_list, page_number),
                                  page_number, following(user, username))

follow_index(user, page_number) ==
    /\ UNCHANGED <<comments, nextComment, groups, users>>
    /\ UNCHANGED <<posts, nextId, follows, pending, cache, now>>
    /\ IF ~is_authenticated(user)
       THEN resp' = login_redirect("follow_index", user, NoArg)
       ELSE \E post_list \in Orderings(follow_queryset(user)) :
              resp' = render_page("follow_index", user, NoArg,
                                  get_page_context(post_list, page_number),
                                  page_number, FALSE)

----------------------------------------------------------------------------
(* Post creation, edition and deletion. *)

\* PostForm(request.POST or None).is_valid(): the form is bound, its text
\* is not empty and its group, when given, is a row of the Group table
is_valid(data) ==
    /\ data.bound
    /\ data.text /= ""
    /\ data.group \in groups \cup {NoGroup}

\* PostForm.save(commit=False): the instance with the submitted fields.
\* Whether the form has an author field is not visible from the views, so
\* the submitted author is taken to reach the instance.
form_save(instance, data) ==
    [instance EXCEPT !.text = data.text, !.group = data.group,
                     !.author = data.author]

\* the view without the assignment: the author the form carries is kept
set_author_skipped(post, user) == post

\* post.author = request.user
set_author(post, user) == [post EXCEPT !.author = user]

NewPost == [text |-> "", pub_date |-> 0, author |-> Anonymous, group |-> NoGroup]

\* Model.save() of a new row: the next pk, pub_date has auto_now_add
insert(post) ==
    [p \in DOMAIN posts \cup {nextId} |->
        IF p = nextId THEN [post EXCEPT !.pub_date = now] ELSE posts[p]]

\* a save that stamps the row again, as auto_now would
update_auto_now(pk, post) ==
    [posts EXCEPT ![pk] = [post EXCEPT !.pub_date = now]]

\* Model.save() of an existing row: auto_now_add leaves pub_date alone
update(pk, post) == [posts EXCEPT ![pk] = post]

post_create(user, data) ==
    /\ UNCHANGED <<comments, nextComment, groups, users>>
    /\ UNCHANGED <<follows, pending, cache, now>>
    /\ IF ~is_authenticated(user)
       THEN /\ resp' = login_redirect("post_create", user, NoArg)
            /\ UNCHANGED <<posts, nextId>>
       ELSE IF is_valid(data)
       THEN /\ nextId <= MaxPosts
            /\ LET post == set_author(form_save(NewPost, data), user)
               IN /\ posts' = insert(post)
                  /\ nextId' = nextId + 1
                  /\ resp' = redirect("post_create", user, NoArg,
                                      Loc("profile", 0, post.author))
       ELSE /\ resp' = render_form("post_create", user, NoArg, data)
            /\ UNCHANGED <<posts, nextId>>

\* post_edit without its guard
may_edit_anyone(post, user) == TRUE

\* the guard of post_edit
may_edit(post, user) == post.author = user

post_edit(user, post_id, data) ==
    /\ UNCHANGED <<comments, nextComment, groups, users>>
    /\ UNCHANGED <<nextId, follows, pending, cache, now>>
    /\ IF ~is_authenticated(user)
       THEN /\ resp' = login_redirect("post_edit", user, Arg(post_id, ""))
            /\ UNCHANGED posts
       ELSE IF post_id \notin DOMAIN posts
       THEN /\ resp' = Http404("post_edit", user, Arg(post_id, ""))
            /\ UNCHANGED posts
       ELSE IF ~may_edit(posts[post_id], user)
       THEN /\ resp' = redirect("post_edit", user, Arg(post_id, ""),
                                Loc("post_detail", post_id, ""))
            /\ UNCHANGED posts
       ELSE IF is_valid(data)
       THEN LET post == set_author(form_save(posts[post_id], data), user)
            IN /\ posts' = update(post_id, post)
               /\ resp' = redirect("post_edit", user, Arg(post_id, ""),
                                   Loc("post_detail", post_id, ""))
       ELSE /\ resp' = render_form("post_edit", user, Arg(post_id, ""), data)
            /\ UNCHANGED posts

----------------------------------------------------------------------------
(* Comments. *)

\* request.POST of add_comment
CommentData(text, post, author) ==
    [bound |-> TRUE, text |-> text, post |-> post, author |-> author]
NoCommentData == [bound |-> FALSE, text |-> "", post |-> 0, author |-> Anonymous]

\* CommentForm(request.POST or None).is_valid(): the form is bound and its
\* text is not empty
comment_is_valid(data) ==
    /\ data.bound
    /\ data.text /= ""

\* CommentForm.save(commit=False): the instance with the submitted fields.
\* Which fields the form has is not visible from the views, so a submitted
\* post and author are taken to reach the instance.
comment_form_save(data) ==
    [post |-> data.post, author |-> data.author, text |-> data.text,
     created |-> 0]

\* the view without the assignment: the post the form carries is kept
set_post_skipped(comment, post_id) == comment

\* comment.post = post
set_post(comment, post_id) == [comment EXCEPT !.post = post_id]

\* Model.save() of a new comment: the next pk, created has auto_now_add
insert_comment(comment) ==
    [c \in DOMAIN comments \cup {nextComment} |->
        IF c = nextComment THEN [comment EXCEPT !.created = now]
        ELSE comments[c]]

add_comment(user, post_id, data) ==
    /\ UNCHANGED <<posts, nextId, groups, users, follows, pending, cache, now>>
    /\ IF ~is_authenticated(user)
       THEN /\ resp' = login_redirect("add_comment", user, Arg(post_id, ""))
            /\ UNCHANGED <<comments, nextComment>>
       ELSE IF post_id \notin DOMAIN posts
       THEN /\ resp' = Http404("add_comment", user, Arg(post_id, ""))
            /\ UNCHANGED <<comments, nextComment>>
       ELSE /\ resp' = redirect("add_comment", user, Arg(post_id, ""),
                                Loc("post_detail", post_id, ""))
            /\ IF comment_is_valid(data)
               THEN /\ nextComment <= MaxComments
                    /\ comments' = insert_comment(
                          set_post(set_author(comment_form_save(data), user),
                                   post_id))
                    /\ nextComment' = nextComment + 1
               ELSE UNCHANGED <<comments, nextComment>>

----------------------------------------------------------------------------
(* Deletion through the ORM, with the on_delete rules of models.py. *)

\* a Comment.post without a rule: the comments stay
post_cascade_none(pks) == comments

\* Comment.post, on_delete=CASCADE: the comments left when posts pks go
post_cascade(pks) ==
    [c \in {d \in DOMAIN comments : comments[d].post \notin pks} |->
        comments[c]]

\* Post.delete()
delete_post(pk) ==
    /\ pk \in DOMAIN posts
    /\ posts' = [p \in DOMAIN posts \ {pk} |-> posts[p]]
    /\ comments' = post_cascade({pk})
    /\ UNCHANGED <<nextId, nextComment, groups, users, follows, pending,
                   cache, now, resp>>

\* User.delete(): Post.author, Comment.author, Follow.user and Follow.author
\* have on_delete=CASCADE, and the deleted posts take their comments along
delete_user(username) ==
    /\ username \in users
    /\ users' = users \ {username}
    /\ posts' = [p \in DOMAIN posts \ author_queryset(username) |-> posts[p]]
    /\ comments' =
          [c \in {d \in DOMAIN post_cascade(author_queryset(username)) :
                     comments[d].author /= username} |-> comments[c]]
    /\ follows' = [p \in Pairs |->
                     IF p[1] = username \/ p[2] = username THEN 0
                     ELSE follows[p]]
    /\ UNCHANGED <<nextId, nextComment, groups, pending, cache, now, resp>>

\* Post.group with on_delete=CASCADE: the posts of the group go
set_null_cascade(slug) ==
    [p \in DOMAIN posts \ group_queryset(slug) |-> posts[p]]

\* Post.group, on_delete=SET_NULL: the Post table after the group slug goes
set_null(slug) ==
    [p \in DOMAIN posts |->
        IF posts[p].group = slug THEN [posts[p] EXCEPT !.group = NoGroup]
        ELSE posts[p]]

\* Group.delete()
delete_group(slug) ==
    /\ slug \in groups
    /\ groups' = groups \ {slug}
    /\ posts' = set_null(slug)
    /\ UNCHANGED <<nextId, comments, nextComment, users, follows, pending,
                   cache, now, resp>>

----------------------------------------------------------------------------
(* Specifications. *)

AnyUser == Users \cup {Anonymous}

Init ==
    /\ posts = <<>>
    /\ nextId = 1
    /\ comments = <<>>
    /\ nextComment = 1
    /\ groups = Groups
    /\ users = Users
    /\ follows = [p \in Pairs |-> 0]
    /\ pending = [p \in Pairs |-> 0]
    /\ cache = <<>>
    /\ now = 0
    /\ resp = NoResponse

(* Spec: following, unfollowing and the feed.  profile_follow requests run *)
(* concurrently; posts are created with one fixed form.                    *)
FeedData(user) == FormData("text", NoGroup, user)
Authors == {"auth", "following_two"}        \* the users who post in Spec
Clients == {"user_followed", "auth", Anonymous}     \* the users who request

Next ==
    \/ \E u \in Clients, n \in Usernames : profile_follow(u, n)
    \/ \E u \in Users, a \in Users : profile_follow_create(u, a)
    \/ \E u \in Clients, n \in Usernames : profile_unfollow(u, n)
    \/ \E u \in Clients : follow_index(u, NoPage)
    \/ \E u \in Clients, n \in Usernames : profile(u, n, NoPage)
    \/ \E u \in Authors : post_create(u, FeedData(u))

Spec == Init /\ [][Next]_vars

(* SpecCache: the home listing behind its cache, while posts are created,  *)
(* edited and deleted and the clock runs.                                  *)
CacheUser == "auth"
CachePages == {NoPage}

NextCache ==
    \/ \E u \in {CacheUser, Anonymous}, pg \in CachePages : index(u, pg)
    \/ cache_clear
    \/ Tick
    \/ post_create(CacheUser, FeedData(CacheUser))
    \/ \E pk \in 1..MaxPosts :
          post_edit(CacheUser, pk, FormData("edited", NoGroup, CacheUser))
    \/ \E pk \in 1..MaxPosts : delete_post(pk)

SpecCache == Init /\ [][NextCache]_vars

(* SpecPost: post_create and post_edit with every form a client can send.  *)
PostData ==
    {NoData, FormData("", NoGroup, "auth"), FormData("text", "nogroup", "auth")}
    \cup {FormData(t, g, a) : t \in Texts, g \in Groups \cup {NoGroup},
                              a \in {"auth", "user_followed"}}
PostUsers == {"auth", "following_two", Anonymous}

NextPost ==
    \/ \E u \in PostUsers, d \in PostData : post_create(u, d)
    \/ \E u \in PostUsers, pk \in 1..MaxPosts, d \in PostData :
          post_edit(u, pk, d)
    \/ profile_follow("user_followed", "auth")
    \/ profile_follow_create("user_followed", "auth")

SpecPost == Init /\ [][NextPost]_vars

(* SpecEdit: posts of one author, edited by the author and by another user *)
(* with valid and invalid forms while the clock runs.                      *)
Editors == {"auth", "following_two"}
EditData(user) == {NoData, FormData("", NoGroup, user),
                   FormData("edited", NoGroup, user)}

NextEdit ==
    \/ Tick
    \/ post_create("auth", FeedData("auth"))
    \/ \E u \in Editors, pk \in 1..MaxPosts :
          \E d \in EditData(u) : post_edit(u, pk, d)

SpecEdit == Init /\ [][NextEdit]_vars

(* SpecComment: the three form views with valid and invalid forms.  The   *)
(* comment forms carry a post and an author of their own.                  *)
CommentUsers == {"auth", "user_followed", Anonymous}
InvalidPostData == {NoData, FormData("", NoGroup, "auth")}
InvalidCommentData == {NoCommentData, CommentData("", 0, Anonymous)}
ValidCommentData ==
    {CommentData("comment", p, "following_two") : p \in 1..MaxPosts}

NextComment ==
    \/ \E d \in InvalidPostData \cup {FeedData("auth")} : post_create("auth", d)
    \/ \E pk \in 1..MaxPosts, d \in InvalidPostData : post_edit("auth", pk, d)
    \/ \E u \in CommentUsers, pk \in 1..MaxPosts :
          \E d \in InvalidCommentData \cup ValidCommentData :
              add_comment(u, pk, d)

SpecComment == Init /\ [][NextComment]_vars

(* SpecGroup: posts in two groups, and the groups deleted. *)
InitGroup ==
    /\ posts = <<>>
    /\ nextId = 1
    /\ comments = <<>>
    /\ nextComment = 1
    /\ groups = TwoGroups
    /\ users = Users
    /\ follows = [p \in Pairs |-> 0]
    /\ pending = [p \in Pairs |-> 0]
    /\ cache = <<>>
    /\ now = 0
    /\ resp = NoResponse

NextGroup ==
    \/ \E g \in TwoGroups : post_create("auth", FormData("text", g, "auth"))
    \/ \E g \in TwoGroups : delete_group(g)
    \/ \E g \in TwoGroups : group_posts(Anonymous, g, NoPage)
    \/ Tick

SpecGroup == InitGroup /\ [][NextGroup]_vars

(* SpecDelete: posts, comments and follow relations created by the views   *)
(* while posts and users are deleted.                                      *)
Commenters == {"user_followed", "auth"}

NextDelete ==
    \/ \E u \in Authors : post_create(u, FeedData(u))
    \/ \E u \in Commenters, pk \in 1..MaxPosts :
          add_comment(u, pk, CommentData("comment", pk, u))
    \/ profile_follow("user_followed", "auth")
    \/ profile_follow_create("user_followed", "auth")
    \/ \E pk \in 1..MaxPosts : delete_post(pk)
    \/ \E u \in Users : delete_user(u)

SpecDelete == Init /\ [][NextDelete]_vars

(* SpecPaginator: the three paginated listings over a table of up to       *)
(* MaxListing posts of one author in one group, created one per tick       *)
(* except that two consecutive ones may share their tick.                  *)
PaginatorPosts(n, tie) ==
    [p \in 1..n |->
        [text |-> "text", author |-> "auth", group |-> "test",
         pub_date |-> IF tie > 0 /\ p > tie THEN p - 1 ELSE p]]

InitPaginator ==
    \E n \in 0..MaxListing, tie \in 0..MaxListing :
        /\ tie < n \/ tie = 0
        /\ posts = PaginatorPosts(n, tie)
        /\ nextId = n + 1
        /\ comments = <<>>
        /\ nextComment = 1
        /\ groups = Groups
        /\ users = Users
        /\ follows = [p \in Pairs |-> 0]
        /\ pending = [p \in Pairs |-> 0]
        /\ cache = <<>>
        /\ now = n
        /\ resp = NoResponse

PageParams == {NoPage, NotANumber} \cup {PageParam(n) : n \in -1..3}

NextPaginator ==
    \/ \E pg \in {NoPage, PageParam(2)} : index(Anonymous, pg)
    \/ cache_clear
    \/ \E s \in Slugs, pg \in PageParams : group_posts(Anonymous, s, pg)
    \/ \E n \in {"auth", "nobody"}, pg \in PageParams : profile(Anonymous, n, pg)

SpecPaginator == InitPaginator /\ [][NextPaginator]_vars
----------------------------------------------------------------------------
(* Claims about following and the feed, checked under Spec. *)

\* C1: a profile_follow(U, A) request, U /= A, made when a Follow relation
\* of the pair exists already (the second of two calls in sequence) is
\* answered with the redirect, not with an error, changes no Follow row and
\* leaves exactly one relation of the pair.
C1_FollowTwice ==
    [][\A u \in Users, a \in Users :
        (u /= a /\ follows[<<u, a>>] >= 1 /\ profile_follow(u, a))
        => /\ resp'.status = 302
           /\ follows' = follows
           /\ follows'[<<u, a>>] = 1]_vars

\* C2: in every reachable state there is at most one Follow relation per
\* (user, author) pair, concurrent profile_follow requests included.
C2_OneFollowPerPair == \A p \in Pairs : follows[p] <= 1

\* C3: no state contains a Follow relation of a user to themself, and a
\* profile_follow(U, U) request changes neither the Follow table nor the
\* calls in flight and is answered with the redirect to the follow feed.
C3_SelfFollowRejected ==
    /\ [](\A u \in Users : follows[<<u, u>>] = 0 /\ pending[<<u, u>>] = 0)
    /\ [][\A u \in Users :
            profile_follow(u, u)
            => /\ follows' = follows
               /\ pending' = pending
               /\ resp'.status = 302
               /\ resp'.location = Loc("follow_index", 0, "")]_vars

\* the last request was a self-follow, answered with the redirect, while the
\* Follow table holds relations
C3_Witness ==
    /\ resp.view = "profile_follow"
    /\ resp.user = resp.arg.name
    /\ resp.status = 302
    /\ resp.location.name = "follow_index"
    /\ \E p \in Pairs : follows[p] > 0

\* C4: profile_unfollow(U, A) for an existing author A leaves no Follow
\* relation of the pair (U, A), however many there were, leaves the
\* relations of every other pair as they were, and answers with the
\* redirect also when there was nothing to delete.
C4_Unfollow ==
    [][\A u \in Users, a \in Users :
        profile_unfollow(u, a)
        => /\ follows'[<<u, a>>] = 0
           /\ \A p \in Pairs \ {<<u, a>>} : follows'[p] = follows[p]
           /\ resp'.status = 302]_vars

\* the last request was an unfollow of a pair that now has no relation,
\* while another pair of the same user still has one
C4_Witness ==
    /\ resp.view = "profile_unfollow"
    /\ resp.status = 302
    /\ resp.location.name = "follow_index"
    /\ resp.user \in Users /\ resp.arg.name \in Users
    /\ follows[<<resp.user, resp.arg.name>>] = 0
    /\ \E a \in Users : follows[<<resp.user, a>>] > 0

\* the primary keys of a page
Pks(page_obj) == {page_obj[i].pk : i \in DOMAIN page_obj}

\* C5: the posts of follow_index(U) are exactly the posts whose author A has
\* a Follow relation (U, A), each of them once (the listings of the model
\* fit on one page).
C5_FeedScoping ==
    [][\A u \in Users :
        follow_index(u, NoPage)
        => /\ Pks(resp'.page_obj) =
                {p \in DOMAIN posts : follows[<<u, posts[p].author>>] > 0}
           /\ Len(resp'.page_obj) = Cardinality(Pks(resp'.page_obj))]_vars

\* the last response is the feed of a user, it shows a post of a followed
\* author, and the table holds a post of an author the user does not follow
C5_Witness ==
    /\ resp.view = "follow_index"
    /\ resp.status = 200
    /\ \E i \in DOMAIN resp.page_obj :
          /\ resp.page_obj[i].author /= resp.user
          /\ follows[<<resp.user, resp.page_obj[i].author>>] > 0
    /\ \E p \in DOMAIN posts :
          /\ follows[<<resp.user, posts[p].author>>] = 0
          /\ p \notin Pks(resp.page_obj)

----------------------------------------------------------------------------
(* Claims about the cache of the home listing, checked under SpecCache. *)

\* a page lists exactly the rows of a queryset as they are now, newest first
IsListingOf(page_obj, queryset) ==
    /\ Pks(page_obj) = queryset
    /\ Len(page_obj) = Cardinality(queryset)
    /\ \A i \in DOMAIN page_obj : page_obj[i] = Obj(page_obj[i].pk)
    /\ \A i, j \in DOMAIN page_obj :
          i < j => page_obj[i].pub_date >= page_obj[j].pub_date

C7_CacheRefresh ==
    [][\A pg \in CachePages :
        (resp'.view = "index" /\ index(resp'.user, pg))
        => /\ (pg \notin DOMAIN cache \/ now >= cache[pg].expires)
              => /\ IsListingOf(resp'.page_obj, DOMAIN posts)
                 /\ cache'[pg] = [content |-> resp'.page_obj,
                                  expires |-> now + CACHES_SEC]
           /\ now < resp'.expires
           /\ resp'.expires <= now + CACHES_SEC]_vars

\* the home listing was rendered anew after the window of an earlier
\* rendering had passed and a post had been deleted
C7_Witness ==
    /\ resp.view = "index"
    /\ resp.expires = now + CACHES_SEC
    /\ now >= CACHES_SEC
    /\ NoPage \in DOMAIN cache /\ cache[NoPage].content = resp.page_obj
    /\ IsListingOf(resp.page_obj, DOMAIN posts)
    /\ Cardinality(DOMAIN posts) < nextId - 1

----------------------------------------------------------------------------
(* Claims about post_create and post_edit, checked under SpecPost. *)

\* C8: a post_edit request of an authenticated user who is not the author
\* of the post, with or without form data, is answered with the redirect to
\* the detail view of the post and changes no row of any table.
C8_EditAuthorization ==
    [][LET u == resp'.user  pk == resp'.arg.pk
       IN (/\ resp'.view = "post_edit"
           /\ u /= Anonymous
           /\ pk \in DOMAIN posts
           /\ posts[pk].author /= u
           /\ \E d \in PostData : post_edit(u, pk, d))
          => /\ resp'.status = 302
             /\ resp'.location = Loc("post_detail", pk, "")
             /\ posts' = posts
             /\ UNCHANGED <<nextId, follows, pending, cache>>]_vars

\* the last request was an edit by a user who is not the author of the post
C8_Witness ==
    /\ resp.view = "post_edit"
    /\ resp.status = 302
    /\ resp.arg.pk \in DOMAIN posts
    /\ resp.user \in Users
    /\ posts[resp.arg.pk].author /= resp.user
    /\ \E p \in Pairs : follows[p] > 0

\* C9: a post enters the table only through post_create and with the
\* requesting user as its author, and no step changes the author of a post
\* that exists.
C9_AuthorIntegrity ==
    [][/\ \A pk \in DOMAIN posts \cap DOMAIN posts' :
            posts'[pk].author = posts[pk].author
       /\ \A pk \in DOMAIN posts' \ DOMAIN posts :
            /\ resp'.view = "post_create"
            /\ posts'[pk].author = resp'.user]_vars

\* two users have a post each and the last request was a successful edit
C9_Witness ==
    /\ resp.view = "post_edit"
    /\ resp.status = 302
    /\ resp.arg.pk \in DOMAIN posts
    /\ posts[resp.arg.pk].author = resp.user
    /\ posts[resp.arg.pk].text = "edited"
    /\ \E p \in DOMAIN posts : posts[p].author /= resp.user

----------------------------------------------------------------------------
(* Claims about pagination, checked under SpecPaginator. *)

Min(a, b) == IF a <= b THEN a ELSE b

NoRepeat(seq) == \A i, j \in DOMAIN seq : i /= j => seq[i].pk /= seq[j].pk

RECURSIVE Concat(_, _)
\* pages 1..k of a choice of pages, one after the other
Concat(pages, k) == IF k = 0 THEN <<>> ELSE Concat(pages, k - 1) \o pages[k]

\* the home, group and profile listings of SpecPaginator
Listings == {all_posts, group_queryset("test"), author_queryset("auth")}

\* C10: for each of the home, group and profile listings, with N posts and
\* page size POSTS_COUNT, page k in 1..ceil(N / POSTS_COUNT) holds
\* min(POSTS_COUNT, N - (k-1) * POSTS_COUNT) posts, and the pages requested
\* one after the other make up the whole listing, newest first, with no
\* post repeated or missing.
C10_Pagination ==
    \A listing \in Listings :
        LET N  == Cardinality(listing)
            np == (N + POSTS_COUNT - 1) \div POSTS_COUNT
        IN \A served \in [1..np -> Orderings(listing)] :
              LET pages == [k \in 1..np |->
                              get_page_context(served[k], PageParam(k))]
              IN /\ \A k \in 1..np :
                       Len(pages[k]) =
                           Min(POSTS_COUNT, N - (k - 1) * POSTS_COUNT)
                 /\ IsListingOf(Concat(pages, np), listing)
                 /\ NoRepeat(Concat(pages, np))

\* the page holds the oldest posts of a queryset, newest first: what is left
\* for the last page once the pages before it are full
IsLastPage(page_obj, queryset) ==
    LET N  == Cardinality(queryset)
        np == (Max(1, N) + POSTS_COUNT - 1) \div POSTS_COUNT
    IN /\ Len(page_obj) = N - (np - 1) * POSTS_COUNT
       /\ NoRepeat(page_obj)
       /\ Pks(page_obj) \subseteq queryset
       /\ \A i \in DOMAIN page_obj : page_obj[i] = Obj(page_obj[i].pk)
       /\ \A i, j \in DOMAIN page_obj :
             i < j => page_obj[i].pub_date >= page_obj[j].pub_date
       /\ \A p \in queryset \ Pks(page_obj), i \in DOMAIN page_obj :
             posts[p].pub_date >= page_obj[i].pub_date

\* the page numbers that lie outside 1..(number of pages) of a queryset
OutOfRange(queryset) ==
    {pg \in PageParams :
        /\ pg.digits
        /\ \/ pg.n < 1
           \/ pg.n > (Max(1, Cardinality(queryset)) + POSTS_COUNT - 1)
                        \div POSTS_COUNT}

\* C11: a request of the home, group or profile listing with a page number
\* outside 1..(number of pages) is answered with the last page of the
\* listing, not with an error.
C11_PageSelection ==
    [][LET pg == resp'.page_number
       IN /\ (/\ resp'.view = "group_posts"
              /\ pg \in OutOfRange(group_queryset("test"))
              /\ group_posts(resp'.user, "test", pg))
             => /\ resp'.status = 200
                /\ IsLastPage(resp'.page_obj, group_queryset("test"))
          /\ (/\ resp'.view = "profile"
              /\ pg \in OutOfRange(author_queryset("auth"))
              /\ profile(resp'.user, "auth", pg))
             => /\ resp'.status = 200
                /\ IsLastPage(resp'.page_obj, author_queryset("auth"))
          /\ (/\ resp'.view = "index"
              /\ pg \in OutOfRange(all_posts)
              /\ index(resp'.user, pg))
             => /\ resp'.status = 200
                /\ IsLastPage(resp'.page_obj, all_posts)]_vars

\* a listing of two pages was requested with a page number beyond them or
\* below 1 and answered with its second page
C11_Witness ==
    /\ resp.view \in {"group_posts", "profile"}
    /\ resp.status = 200
    /\ resp.page_number \in {PageParam(3), PageParam(0), PageParam(-1)}
    /\ Cardinality(DOMAIN posts) > POSTS_COUNT
    /\ Len(resp.page_obj) = Cardinality(DOMAIN posts) - POSTS_COUNT

\* C12: every listing is ordered by pub_date descending, and posts of equal
\* pub_date by primary key ascending.
C12_ListingOrder ==
    (resp.status = 200 /\
     resp.view \in {"index", "group_posts", "profile", "follow_index"})
    => \A i, j \in DOMAIN resp.page_obj :
          i < j => \/ resp.page_obj[i].pub_date > resp.page_obj[j].pub_date
                   \/ /\ resp.page_obj[i].pub_date = resp.page_obj[j].pub_date
                      /\ resp.page_obj[i].pk < resp.page_obj[j].pk

----------------------------------------------------------------------------
(* Claims about the creation timestamp, checked under SpecEdit. *)

\* the orders, as sequences of primary keys, in which a listing of all
\* posts can come
PkOrderings ==
    {[i \in DOMAIN o |-> o[i].pk] : o \in Orderings(all_posts)}

\* C17: pub_date is the time of creation of a post and no step changes it,
\* whether a post_edit request succeeds, is invalid or comes from another
\* user; so a post_edit request leaves the order of the listings as it was.
C17_PubDateImmutable ==
    [][/\ \A pk \in DOMAIN posts \cap DOMAIN posts' :
            posts'[pk].pub_date = posts[pk].pub_date
       /\ \A pk \in DOMAIN posts' \ DOMAIN posts :
            posts'[pk].pub_date = now
       /\ resp'.view = "post_edit" => PkOrderings' = PkOrderings]_vars

\* a post was edited by its author at a later tick than its creation, after
\* a newer post was created
C17_Witness ==
    /\ resp.view = "post_edit"
    /\ resp.status = 302
    /\ resp.arg.pk \in DOMAIN posts
    /\ posts[resp.arg.pk].text = "edited"
    /\ posts[resp.arg.pk].pub_date < now
    /\ \E p \in DOMAIN posts :
          /\ posts[p].pub_date > posts[resp.arg.pk].pub_date
          /\ posts[p].pub_date < now

----------------------------------------------------------------------------
(* Claims about the profile page, checked under Spec. *)

\* C18: the following flag of a profile page is true exactly when the
\* requesting user is authenticated and has a Follow relation to the author
\* of the profile.
C18_FollowingFlag ==
    (resp.view = "profile" /\ resp.status = 200)
    => (resp.following <=>
           /\ resp.user /= Anonymous
           /\ follows[<<resp.user, resp.arg.name>>] > 0)

----------------------------------------------------------------------------
(* Claims about invalid forms and comments, checked under SpecComment. *)

\* C13: a POST with empty text to post_create, to post_edit by the author
\* of the post or to add_comment leaves the Post and Comment tables as they
\* were and is answered with a rendering of the form that holds the
\* submitted input, not with a redirect.
C13_InvalidForm ==
    [][LET u  == resp'.user
           pk == resp'.arg.pk
       IN /\ (/\ resp'.view = "post_create"
              /\ is_authenticated(u)
              /\ \E d \in InvalidPostData : post_create(u, d))
             => /\ UNCHANGED <<posts, comments>>
                /\ resp'.status = 200
                /\ \E d \in InvalidPostData : resp'.form = d /\ post_create(u, d)
          /\ (/\ resp'.view = "post_edit"
              /\ pk \in DOMAIN posts
              /\ posts[pk].author = u
              /\ \E d \in InvalidPostData : post_edit(u, pk, d))
             => /\ UNCHANGED <<posts, comments>>
                /\ resp'.status = 200
                /\ \E d \in InvalidPostData : resp'.form = d /\ post_edit(u, pk, d)
          /\ (/\ resp'.view = "add_comment"
              /\ is_authenticated(u)
              /\ pk \in DOMAIN posts
              /\ \E d \in InvalidCommentData : add_comment(u, pk, d))
             => /\ UNCHANGED <<posts, comments>>
                /\ resp'.status = 200
                /\ \E d \in InvalidCommentData :
                      resp'.form.text = d.text /\ add_comment(u, pk, d)]_vars

\* C14: a valid add_comment request on post P by the authenticated user U
\* creates one Comment, of post P and author U whatever post and author the
\* form carries, changes no other row, and is answered with a redirect to
\* the detail view of P.
C14_CommentCreate ==
    [][LET u  == resp'.user
           pk == resp'.arg.pk
       IN (/\ resp'.view = "add_comment"
           /\ is_authenticated(u)
           /\ pk \in DOMAIN posts
           /\ \E d \in ValidCommentData : add_comment(u, pk, d))
          => /\ DOMAIN comments' = DOMAIN comments \cup {nextComment}
             /\ nextComment \notin DOMAIN comments
             /\ comments'[nextComment].post = pk
             /\ comments'[nextComment].author = u
             /\ comments'[nextComment].text = "comment"
             /\ \A c \in DOMAIN comments : comments'[c] = comments[c]
             /\ UNCHANGED <<posts, groups, users, follows>>
             /\ resp'.status = 302
             /\ resp'.location = Loc("post_detail", pk, "")]_vars

\* user_followed commented the second post; every form of SpecComment names
\* following_two as the author, and a form that names the first post is
\* among them
C14_Witness ==
    /\ resp.view = "add_comment"
    /\ resp.status = 302
    /\ resp.user = "user_followed"
    /\ resp.arg.pk = 2
    /\ nextComment - 1 \in DOMAIN comments
    /\ comments[nextComment - 1].post = 2
    /\ comments[nextComment - 1].author = "user_followed"

----------------------------------------------------------------------------
(* Claim about the deletion of a group, checked under SpecGroup. *)

\* C15: the deletion of a group deletes no post: the posts of the group stay
\* with their group set to null and their other fields as they were, and the
\* other posts stay as they were.
C15_GroupDeletion ==
    [][groups' /= groups =>
         /\ DOMAIN posts' = DOMAIN posts
         /\ \A p \in DOMAIN posts :
              IF posts[p].group \in groups \ groups'
              THEN /\ posts'[p].group = NoGroup
                   /\ posts'[p].text = posts[p].text
                   /\ posts'[p].author = posts[p].author
                   /\ posts'[p].pub_date = posts[p].pub_date
              ELSE posts'[p] = posts[p]]_vars

\* group test is deleted, a post that was created in it remains without a
\* group (every post of SpecGroup is created in a group), and a post of the
\* other group remains in it
C15_Witness ==
    /\ groups = {"second"}
    /\ \E p, q \in DOMAIN posts :
          /\ posts[p].group = NoGroup
          /\ posts[q].group = "second"

----------------------------------------------------------------------------
(* Claim about the foreign keys, checked under SpecDelete. *)

Integrity ==
    /\ \A c \in DOMAIN comments :
          /\ comments[c].post \in DOMAIN posts
          /\ comments[c].author \in users
    /\ \A p \in DOMAIN posts : posts[p].author \in users
    /\ \A p \in Pairs : follows[p] > 0 => p[1] \in users /\ p[2] \in users

\* C16: in every state every Comment has an existing post and an existing
\* author, every Post an existing author and every Follow an existing user
\* and an existing author; the deletion of a post deletes its comments and
\* nothing else, the deletion of a user deletes the posts, the comments and
\* the follow relations of the user, the comments of these posts and nothing
\* else.
C16_ReferentialIntegrity ==
    [][/\ Integrity
       /\ Integrity'
       /\ (users' = users /\ DOMAIN posts' /= DOMAIN posts /\ nextId' = nextId)
          => /\ DOMAIN posts' \subseteq DOMAIN posts
             /\ \A p \in DOMAIN posts' : posts'[p] = posts[p]
             /\ DOMAIN comments' =
                   {c \in DOMAIN comments : comments[c].post \in DOMAIN posts'}
             /\ \A c \in DOMAIN comments' : comments'[c] = comments[c]
             /\ UNCHANGED follows
       /\ users' /= users
          => /\ users' \subseteq users
             /\ DOMAIN posts' =
                   {p \in DOMAIN posts : posts[p].author \in users'}
             /\ \A p \in DOMAIN posts' : posts'[p] = posts[p]
             /\ DOMAIN comments' =
                   {c \in DOMAIN comments :
                       /\ comments[c].author \in users'
                       /\ posts[comments[c].post].author \in users'}
             /\ \A c \in DOMAIN comments' : comments'[c] = comments[c]
             /\ \A p \in Pairs :
                   follows'[p] = IF p[1] \in users' /\ p[2] \in users'
                                 THEN follows[p] ELSE 0]_vars

\* auth is deleted after posting, being commented and being followed, and a
\* comment of user_followed on a post of following_two remains
C16_Witness ==
    /\ "auth" \notin users
    /\ nextId = 3
    /\ nextComment = 3
    /\ Cardinality(DOMAIN posts) = 1
    /\ Cardinality(DOMAIN comments) = 1
    /\ \A c \in DOMAIN comments :
          /\ comments[c].author = "user_followed"
          /\ posts[comments[c].post].author = "following_two"
    /\ pending[<<"user_followed", "auth">>] = 0
    /\ resp.status = 500
====
